---- MODULE Spec2Model ----
(***************************************************************************)
(* The custom error page responder of images/custom-error-pages/main.go:   *)
(* errorHandler and modifyOutput, with the file system, the process        *)
(* environment and the two Prometheus collectors they use.                 *)
(*                                                                         *)
(* Go strings are TLA+ strings (Len, SubSeq and \o work on them).  One     *)
(* request is handled at a time; a request goes through the handler in     *)
(* the order of the source: classify (lines 110-170), resolve (171-175),   *)
(* emit (176-201), metrics (203-209), return (the deferred Close calls).   *)
(***************************************************************************)
EXTENDS Integers, Sequences, FiniteSets, TLC

\* ------------------------------------------------------------------ bounds

\* Number of requests one behaviour handles (caps the metric counters).
MaxRequests == 2

\* ------------------------------------------------------- header constants

FormatHeader == "X-Format"
CodeHeader == "X-Code"
ContentType == "Content-Type"
OriginalURI == "X-Original-URI"
Namespace == "X-Namespace"
IngressName == "X-Ingress-Name"
ServiceName == "X-Service-Name"
ServicePort == "X-Service-Port"
RequestId == "X-Request-ID"
ErrFilesPathVar == "ERROR_FILES_PATH"
OriginHeader == "Origin"
AllowOrigin == "Access-Control-Allow-Origin"
AllowCredentials == "Access-Control-Allow-Credentials"
ApiContentType == "application/vnd.api+json; charset=utf-8"

\* http.StatusOK, and the code used when X-Code does not parse.
StatusOK == 200
DefaultCode == 404
\* http.StatusNotFound, the status http.NotFound replies with.
StatusNotFound == 404

\* content is a *strings.Reader: nil (no string), or the reader of one string.
NoContent == <<>>
NewReader(str) == <<str>>

\* ------------------------------------------------------------ Go strings

DigitChars == <<"0", "1", "2", "3", "4", "5", "6", "7", "8", "9">>

IsDigit(c) == \E d \in 1..10 : DigitChars[d] = c

DigitValue(c) == (CHOOSE d \in 1..10 : DigitChars[d] = c) - 1

CharAt(s, i) == SubSeq(s, i, i)

\* strings.HasPrefix
HasPrefix(s, p) == Len(s) >= Len(p) /\ SubSeq(s, 1, Len(p)) = p

\* strings.Contains
Contains(s, sub) ==
    \E i \in 1..(Len(s) + 1) :
        i + Len(sub) - 1 <= Len(s) /\ SubSeq(s, i, i + Len(sub) - 1) = sub

\* The digits of a string after its optional sign, as strconv.Atoi reads it.
Unsigned(s) ==
    IF Len(s) > 0 /\ CharAt(s, 1) \in {"+", "-"} THEN SubSeq(s, 2, Len(s)) ELSE s

RECURSIVE DigitsValue(_)
DigitsValue(s) ==
    IF Len(s) = 0 THEN 0
    ELSE 10 * DigitsValue(SubSeq(s, 1, Len(s) - 1)) + DigitValue(CharAt(s, Len(s)))

\* strconv.Atoi: [err, val]; err on an empty string, a lone sign or a non-digit.
Atoi(s) ==
    LET u == Unsigned(s)
        ok == Len(u) > 0 /\ \A i \in 1..Len(u) : IsDigit(CharAt(u, i))
    IN  IF ~ok THEN [err |-> TRUE, val |-> 0]
        ELSE [err |-> FALSE,
              val |-> IF CharAt(s, 1) = "-" THEN 0 - DigitsValue(u) ELSE DigitsValue(u)]

RECURSIVE NatString(_)
NatString(n) ==
    IF n < 10 THEN DigitChars[n + 1]
    ELSE NatString(n \div 10) \o DigitChars[(n % 10) + 1]

\* strconv.Itoa, and the %v of an int in fmt.Sprintf
Itoa(n) == IF n < 0 THEN "-" \o NatString(0 - n) ELSE NatString(n)

\* r.Header.Get: the empty string for a header the request does not carry.
Get(h, name) == IF name \in DOMAIN h THEN h[name] ELSE ""

\* w.Header().Set
Set(h, name, value) ==
    [n \in DOMAIN h \cup {name} |-> IF n = name THEN value ELSE h[n]]

\* ------------------------------------------------------- the environment

FreshaEnv == "REFRESH_FRESHA_MAINTENANCE"
ShedulEnv == "REFRESH_SHEDUL_MAINTENANCE"
DebugEnv == "DEBUG"

\* refreshEndpoints: match key -> file and environment variable.
refreshEndpoints ==
    [k \in {"/version-checks/fresha", "/version-checks/shedul"} |->
        IF k = "/version-checks/fresha"
        THEN [file |-> "refresh-fresha.json", env |-> FreshaEnv]
        ELSE [file |-> "refresh-shedul.json", env |-> ShedulEnv]]

\* The order in which the literal of refreshEndpoints lists the routes.
ConfigOrder == <<"/version-checks/fresha", "/version-checks/shedul">>

\* The orders in which `range endpoints` can visit the map: Go leaves the
\* iteration order of a map unspecified and randomises it.
RangeOrders ==
    {o \in [1..Cardinality(DOMAIN refreshEndpoints) -> DOMAIN refreshEndpoints] :
        \A i, j \in DOMAIN o : i # j => o[i] # o[j]}

\* refreshHeaders of one request.
refreshHeaders(origin) ==
    [n \in {ContentType, AllowOrigin, AllowCredentials} |->
        CASE n = ContentType -> ApiContentType
          [] n = AllowOrigin -> origin
          [] OTHER -> "true"]

\* mime.ExtensionsByType on the media types the requests carry: an error
\* for a malformed type, no extension for an unregistered one, and the
\* sorted extensions of a registered one.
ExtensionsByType(format) ==
    CASE format = "text/html" -> [err |-> FALSE, exts |-> <<".htm", ".html">>]
      [] format = "application/json" -> [err |-> FALSE, exts |-> <<".json">>]
      [] format = "a/b/c" -> [err |-> TRUE, exts |-> <<>>]
      [] OTHER -> [err |-> FALSE, exts |-> <<>>]

\* net/http refuses a status outside 100..999: WriteHeader panics.
ValidStatus(c) == c >= 100 /\ c <= 999

\* fmt.Sprintf("%v/%v%v", path, code, ext)
CodeFile(path, c, e) == path \o "/" \o Itoa(c) \o e

\* fmt.Sprintf("%v/%cxx%v", path, scode[0], ext)
ClassFile(path, c, e) == path \o "/" \o CharAt(Itoa(c), 1) \o "xx" \o e

\* fmt.Sprintf("%v/%v", path, config["file"])
RouteFile(path, k) == path \o "/" \o refreshEndpoints[k].file

\* The bytes of a file (every file has its own).
ReadFile(f) == "bytes of " \o f

\* ------------------------------------------------------------ the inputs

Formats == {"", "application/json", "a/b/c", "application/x-unknown"}
Codes == {"", "4x4", "404", "0503", "42"}
URIs == {"/other", "/api/version-checks/fresha?v=1", "/version-checks/shedul",
         "/version-checks/fresha/version-checks/shedul"}
Services == {"", "refresh", "refresher"}
Protos == {<<1, 1>>, <<2, 0>>}
Origins == {"https://app.example"}
EnvNames == {ErrFilesPathVar, FreshaEnv, ShedulEnv, DebugEnv}
\* Each variable is unset ("") or holds its own value; the root is left at
\* its default.
Environments ==
    {[n \in EnvNames |->
        CASE n = FreshaEnv -> f
          [] n = ShedulEnv -> s
          [] n = DebugEnv -> d
          [] OTHER -> ""] :
        f \in {"", "{fresha down}"}, s \in {"", "{shedul down}"}, d \in {"", "true"}}

Requests ==
    {[h |-> [n \in {FormatHeader, CodeHeader, OriginalURI, ServiceName, OriginHeader} |->
                CASE n = FormatHeader -> f
                  [] n = CodeHeader -> c
                  [] n = OriginalURI -> u
                  [] n = ServiceName -> s
                  [] OTHER -> o],
      ProtoMajor |-> p[1], ProtoMinor |-> p[2]] :
        f \in Formats, c \in Codes, u \in URIs, s \in Services, p \in Protos,
        o \in Origins}

\* The files a deployment can hold under its root: the per-code pages, the
\* per-class pages and the route files, each group present or absent.
CodePages(path) ==
    {CodeFile(path, Atoi(c).val, e) :
        c \in {c \in Codes : ~Atoi(c).err} \cup {Itoa(DefaultCode)},
        e \in {".htm", ".html", ".json"}}
ClassPages(path) ==
    {ClassFile(path, Atoi(c).val, e) :
        c \in {c \in Codes : ~Atoi(c).err} \cup {Itoa(DefaultCode)},
        e \in {".htm", ".html", ".json"}}
RoutePages(path) == {RouteFile(path, k) : k \in DOMAIN refreshEndpoints}
FileSystems(path) ==
    {UNION g : g \in SUBSET {CodePages(path), ClassPages(path), RoutePages(path)}}

\* ------------------------------------------------------------- the state

VARIABLES
    env,             \* the process environment (os.Getenv)
    files,           \* the paths os.Open can open
    errFilesPath,    \* main: the root of the error files
    handled,         \* requests received so far
    pc,              \* where the handler is
    req,             \* r: the request being handled
    headers,         \* w.Header()
    format, ext, code, customCode, filename, content,   \* errorHandler's locals
    invoked,         \* modifyOutput was called for this request
    status,          \* the argument of the WriteHeader call (0 before it)
    body,            \* what io.Copy wrote
    outcome,         \* "none", "literal", "file", "fallback", "notfound", "panic"
    opens,           \* the paths given to os.Open, in order
    open,            \* the file handles that are open
    deferred,        \* the handles of the pending `defer f.Close()`
    samples,         \* the labels recorded for this request
    requestCount,    \* requestCount.WithLabelValues(proto): increments
    requestDuration  \* requestDuration.WithLabelValues(proto): observations

locals == <<format, ext, code, customCode, filename, content, invoked>>
response == <<headers, status, body, outcome>>
handles == <<opens, open, deferred>>
metrics == <<samples, requestCount, requestDuration>>
vars == <<env, files, errFilesPath, handled, pc, req, locals, response, handles, metrics>>

NoHeaders == [n \in {} |-> ""]
NoRequest == [h |-> NoHeaders, ProtoMajor |-> 0, ProtoMinor |-> 0]
Labels == {Itoa(p[1]) \o "." \o Itoa(p[2]) : p \in Protos}

\* main: the root is /www unless ERROR_FILES_PATH names another one; no
\* request is being handled and nothing was recorded.
Init ==
    /\ env \in Environments
    /\ errFilesPath = IF env[ErrFilesPathVar] # "" THEN env[ErrFilesPathVar] ELSE "/www"
    /\ files \in FileSystems(errFilesPath)
    /\ handled = 0
    /\ pc = "idle"
    /\ req = NoRequest
    /\ headers = NoHeaders
    /\ format = "" /\ ext = "" /\ code = 0 /\ customCode = 0
    /\ filename = "" /\ content = NoContent /\ invoked = FALSE
    /\ status = 0 /\ body = "" /\ outcome = "none"
    /\ opens = <<>> /\ open = {} /\ deferred = <<>>
    /\ samples = <<>>
    /\ requestCount = [l \in Labels |-> 0]
    /\ requestDuration = [l \in Labels |-> 0]

\* ------------------------------------------------------------ the handler

\* A request arrives: the handler starts with fresh locals and an empty
\* response.  The environment is read at request time and may have changed.
Receive ==
    /\ pc = "idle"
    /\ handled < MaxRequests
    /\ handled' = handled + 1
    /\ req' \in Requests
    /\ env' \in {e \in Environments : e[ErrFilesPathVar] = env[ErrFilesPathVar]}
    /\ outcome' = "none"
    /\ pc' = "classify"
    /\ UNCHANGED <<files, errFilesPath, headers, locals, status, body, handles, metrics>>

\* Lines 129-139: with DEBUG set, the request's headers are echoed.
RECURSIVE EchoHeaders(_, _, _)
EchoHeaders(h, r, names) ==
    IF names = <<>> THEN h
    ELSE EchoHeaders(Set(h, Head(names), Get(r, Head(names))), r, Tail(names))

DebugHeaders ==
    <<FormatHeader, CodeHeader, ContentType, OriginalURI, Namespace, IngressName,
      ServiceName, ServicePort, RequestId>>

\* Lines 141-155: the format and the extension of a request.
ResolveFormat(xformat) ==
    LET f == IF xformat = "" THEN "text/html" ELSE xformat
        m == ExtensionsByType(f)
    IN  IF m.err THEN [format |-> "text/html", ext |-> "html"]
        ELSE IF Len(m.exts) = 0 THEN [format |-> f, ext |-> "html"]
        ELSE [format |-> f, ext |-> m.exts[1]]

\* Lines 158-163: the status code of a request.
ResolveCode(xcode) ==
    LET a == Atoi(xcode) IN IF a.err THEN DefaultCode ELSE a.val

\* Lines 165-167: the extension starts with a dot.
NormalizeExt(e) == IF ~HasPrefix(e, ".") THEN "." \o e ELSE e

\* Variant: customCode left at its zero value.
InitialCustomCode_Zero(c) == 0

\* Line 164: customCode starts as the code.
InitialCustomCode(c) == c

\* Lines 124-170.
Classify ==
    /\ pc = "classify"
    /\ LET f == ResolveFormat(Get(req.h, FormatHeader))
           echoed == IF env[DebugEnv] # ""
                     THEN EchoHeaders(headers, req.h, DebugHeaders)
                     ELSE headers
       IN  /\ format' = f.format
           /\ ext' = NormalizeExt(f.ext)
           /\ headers' = Set(echoed, ContentType, f.format)
    /\ code' = ResolveCode(Get(req.h, CodeHeader))
    /\ customCode' = InitialCustomCode(code')
    /\ pc' = "resolve"
    /\ UNCHANGED <<env, files, errFilesPath, handled, req, filename, content, invoked,
                   status, body, outcome, handles, metrics>>

\* Variant: a URI match selects the file and leaves customCode alone.
VisitEndpoint_NoStatus(st, endpoint, path, uri) ==
    LET config == refreshEndpoints[endpoint]
    IN  IF env[config.env] # ""
        THEN [st EXCEPT !.content = NewReader(env[config.env])]
        ELSE IF Contains(uri, endpoint)
        THEN [st EXCEPT !.filename = RouteFile(path, endpoint)]
        ELSE st

\* Lines 96-103: one iteration of the loop over the endpoints.
VisitEndpoint(st, endpoint, path, uri) ==
    LET config == refreshEndpoints[endpoint]
    IN  IF env[config.env] # ""
        THEN [st EXCEPT !.content = NewReader(env[config.env])]
        ELSE IF Contains(uri, endpoint)
        THEN [st EXCEPT !.customCode = StatusOK, !.filename = RouteFile(path, endpoint)]
        ELSE st

RECURSIVE RangeEndpoints(_, _, _, _)
RangeEndpoints(st, order, path, uri) ==
    IF order = <<>> THEN st
    ELSE RangeEndpoints(VisitEndpoint(st, Head(order), path, uri), Tail(order), path, uri)

\* Lines 83-106: modifyOutput, with the order in which the map is visited.
\* customCode is declared without a value (0) and set only by a URI match.
modifyOutput(e, path, uri, ingressCode, order) ==
    RangeEndpoints([filename |-> CodeFile(path, ingressCode, e),
                    content |-> NoContent,
                    customCode |-> 0],
                   order, path, uri)

\* Lines 89-91: the refresh headers are set on the response.
RECURSIVE SetAll(_, _)
SetAll(h, hs) ==
    IF DOMAIN hs = {} THEN h
    ELSE LET n == CHOOSE n \in DOMAIN hs : TRUE
         IN  SetAll(Set(h, n, hs[n]), [m \in DOMAIN hs \ {n} |-> hs[m]])

\* Variant: any service whose name starts with "refresh".
IsRefresh_Prefix(serviceName) == HasPrefix(serviceName, "refresh")

\* Line 171: the service the override is for.
IsRefresh(serviceName) == serviceName = "refresh"

\* Lines 169-175.
Resolve ==
    /\ pc = "resolve"
    /\ IF IsRefresh(Get(req.h, ServiceName))
       THEN \E order \in RangeOrders :
               LET r == modifyOutput(ext, errFilesPath, Get(req.h, OriginalURI), code, order)
               IN  /\ filename' = r.filename
                   /\ content' = r.content
                   /\ customCode' = r.customCode
                   /\ headers' = SetAll(headers, refreshHeaders(Get(req.h, OriginHeader)))
                   /\ invoked' = TRUE
       ELSE /\ filename' = CodeFile(errFilesPath, code, ext)
            /\ UNCHANGED <<content, customCode, headers, invoked>>
    /\ pc' = "emit"
    /\ UNCHANGED <<env, files, errFilesPath, handled, req, format, ext, code,
                   status, body, outcome, handles, metrics>>

\* os.Open succeeds on the files that exist.
CanOpen(f) == f \in files

\* Variant: no Close is deferred.
DeferClose_Missing(d, f) == d

\* `defer f.Close()` (lines 191 and 197): f is closed when the handler returns.
DeferClose(d, f) == Append(d, f)

\* Line 199: the status written with the primary file.
PrimaryStatus(c, cc) == cc

\* Variant: the class-level file is written with customCode.
FallbackStatus_Override(c, cc) == cc

\* Line 193: the status written with the class-level file.
FallbackStatus(c, cc) == c

\* w.WriteHeader(c) followed by io.Copy(w, bytes).  net/http panics on a
\* status outside 100..999: nothing is written, the handler unwinds (its
\* deferred calls run) and the server drops the connection.
Serve(c, bytes, kind, next) ==
    /\ status' = c
    /\ IF ValidStatus(c)
       THEN body' = bytes /\ outcome' = kind /\ pc' = next
       ELSE body' = body /\ outcome' = "panic" /\ pc' = "return"

\* Lines 176-178: the content of an environment variable is the body.
EmitContent ==
    /\ pc = "emit"
    /\ content # NoContent
    /\ Serve(customCode, content[1], "literal", "metrics")
    /\ UNCHANGED <<env, files, errFilesPath, handled, req, headers, locals, handles,
                   metrics>>

\* Lines 180-182 and 197-200: the resolved file is opened and served, or
\* the handler goes on to the class-level file.
OpenPrimary ==
    /\ pc = "emit"
    /\ content = NoContent
    /\ opens' = Append(opens, filename)
    /\ IF CanOpen(filename)
       THEN /\ open' = open \cup {filename}
            /\ deferred' = DeferClose(deferred, filename)
            /\ Serve(PrimaryStatus(code, customCode), ReadFile(filename), "file", "metrics")
       ELSE /\ pc' = "fallback"
            /\ UNCHANGED <<open, deferred, status, body, outcome>>
    /\ UNCHANGED <<env, files, errFilesPath, handled, req, headers, locals, metrics>>

\* Lines 183-195: the class-level file is opened and served with the code
\* of the request, and the handler returns; or http.NotFound replies.
OpenFallback ==
    /\ pc = "fallback"
    /\ filename' = ClassFile(errFilesPath, code, ext)
    /\ opens' = Append(opens, filename')
    /\ IF CanOpen(filename')
       THEN /\ open' = open \cup {filename'}
            /\ deferred' = DeferClose(deferred, filename')
            /\ Serve(FallbackStatus(code, customCode), ReadFile(filename'), "fallback",
                     "return")
            /\ UNCHANGED headers
       ELSE /\ headers' = Set(Set(headers, ContentType, "text/plain; charset=utf-8"),
                              "X-Content-Type-Options", "nosniff")
            /\ status' = StatusNotFound
            /\ body' = "404 page not found"
            /\ outcome' = "notfound"
            /\ pc' = "return"
            /\ UNCHANGED <<open, deferred>>
    /\ UNCHANGED <<env, files, errFilesPath, handled, req, format, ext, code, customCode,
                   content, invoked, metrics>>

\* Lines 205-206: the protocol version of the request, "major.minor".
ProtoLabel(r) == Itoa(r.ProtoMajor) \o "." \o Itoa(r.ProtoMinor)

\* Lines 203-209: one increment and one observation under the protocol label.
Metrics ==
    /\ pc = "metrics"
    /\ LET proto == ProtoLabel(req)
       IN  /\ requestCount' = [requestCount EXCEPT ![proto] = @ + 1]
           /\ requestDuration' = [requestDuration EXCEPT ![proto] = @ + 1]
           /\ samples' = Append(samples, proto)
    /\ pc' = "return"
    /\ UNCHANGED <<env, files, errFilesPath, handled, req, locals, response, handles>>

\* The handler returns (or unwinds): the deferred Close calls run, and the
\* request, the locals and the response writer are gone.  What stays is the
\* metrics, and for the record how the request ended.
Return ==
    /\ pc = "return"
    /\ open' = open \ {deferred[i] : i \in DOMAIN deferred}
    /\ deferred' = <<>>
    /\ opens' = <<>>
    /\ req' = NoRequest
    /\ headers' = NoHeaders
    /\ format' = "" /\ ext' = "" /\ code' = 0 /\ customCode' = 0
    /\ filename' = "" /\ content' = NoContent /\ invoked' = FALSE
    /\ status' = 0 /\ body' = ""
    /\ samples' = <<>>
    /\ pc' = "idle"
    /\ UNCHANGED <<env, files, errFilesPath, handled, outcome, requestCount,
                   requestDuration>>

Next ==
    \/ Receive
    \/ Classify
    \/ Resolve
    \/ EmitContent
    \/ OpenPrimary
    \/ OpenFallback
    \/ Metrics
    \/ Return

Spec == Init /\ [][Next]_vars

\* ------------------------------------------------------------ vocabulary

\* The handler is about to return: the response of the request is complete.
Done == pc = "return"

\* The request's headers as the claims name them.
service == Get(req.h, ServiceName)
uri == Get(req.h, OriginalURI)

\* A response reached the client: a status and a body were written.
Replied == outcome \in {"literal", "file", "fallback", "notfound"}

TypeOK ==
    /\ pc \in {"idle", "classify", "resolve", "emit", "fallback", "metrics", "return"}
    /\ outcome \in {"none", "literal", "file", "fallback", "notfound", "panic"}
    /\ handled \in 0..MaxRequests
    /\ open \subseteq files

\* The handler is past the classifier and past the override resolver.
Classified == pc \in {"resolve", "emit", "fallback", "metrics", "return"}
Resolved == pc \in {"emit", "fallback", "metrics", "return"}

FreshaKey == "/version-checks/fresha"
ShedulKey == "/version-checks/shedul"

\* The paths as the file layout names them.
CodePage == errFilesPath \o "/" \o Itoa(code) \o ext
ClassPage == errFilesPath \o "/" \o CharAt(Itoa(code), 1) \o "xx" \o ext
FreshaPage == errFilesPath \o "/refresh-fresha.json"

\* A route of the override resolver triggers for the request.
RouteTriggers ==
    \/ env[FreshaEnv] # "" \/ env[ShedulEnv] # ""
    \/ Contains(uri, FreshaKey) \/ Contains(uri, ShedulKey)

\* ------------------------------------------------------------- the claims

\* C1: a request that emits a body (the literal content, the primary file or
\* the class-level file) records exactly one increment and one observation
\* under "major.minor"; a request that finds neither file records none.
C1_MetricsOncePerBody ==
    Done =>
        /\ outcome \in {"literal", "file", "fallback"} => samples = <<ProtoLabel(req)>>
        /\ outcome = "notfound" => samples = <<>>

\* C2: for a refresh request whose URI contains /version-checks/fresha, with
\* REFRESH_FRESHA_MAINTENANCE set to V, the body is V and the status is 200.
C2_EnvContentWithStatusOK ==
    (Done /\ service = "refresh" /\ Contains(uri, FreshaKey) /\ env[FreshaEnv] # "") =>
        /\ outcome = "literal"
        /\ body = env[FreshaEnv]
        /\ status = StatusOK

\* C3 as stated: for a refresh request whose URI contains
\* /version-checks/fresha, with REFRESH_FRESHA_MAINTENANCE unset, the response
\* is the file refresh-fresha.json (where it exists) with status 200, whatever
\* the other route's environment variable holds.
C3_AnyOtherRoute ==
    (Done /\ service = "refresh" /\ Contains(uri, FreshaKey) /\ env[FreshaEnv] = ""
          /\ FreshaPage \in files) =>
        /\ outcome = "file"
        /\ body = ReadFile(FreshaPage)
        /\ status = StatusOK

\* C3 (amended): for a refresh request whose URI contains
\* /version-checks/fresha, with REFRESH_FRESHA_MAINTENANCE unset, and with the
\* other route silent (REFRESH_SHEDUL_MAINTENANCE unset, no
\* /version-checks/shedul in the URI), the file tried first is
\* <root>/refresh-fresha.json with the override status 200, and where that
\* file exists the response is its bytes with status 200.
C3_FreshaFile ==
    (Done /\ service = "refresh" /\ Contains(uri, FreshaKey) /\ env[FreshaEnv] = ""
          /\ env[ShedulEnv] = "" /\ ~Contains(uri, ShedulKey)) =>
        /\ opens # <<>> /\ opens[1] = FreshaPage
        /\ customCode = StatusOK
        /\ FreshaPage \in files =>
            /\ outcome = "file"
            /\ body = ReadFile(FreshaPage)
            /\ status = StatusOK

C3_Witness ==
    /\ Done /\ service = "refresh" /\ Contains(uri, FreshaKey) /\ env[FreshaEnv] = ""
    /\ env[ShedulEnv] = "" /\ ~Contains(uri, ShedulKey)
    /\ code # StatusOK
    /\ outcome = "file" /\ body = ReadFile(FreshaPage) /\ status = StatusOK

\* C4: for a refresh request for which no route triggers, the file tried is
\* <root>/<code><ext> and the status written with it is the classifier's code.
C4_NoRouteKeepsClassifier ==
    (Done /\ service = "refresh" /\ ~RouteTriggers) =>
        /\ opens # <<>> /\ opens[1] = CodePage
        /\ CodePage \in files => status = code

C7_NoOverrideForOtherServices ==
    (Resolved /\ service # "refresh") =>
        /\ ~invoked
        /\ AllowOrigin \notin DOMAIN headers
        /\ AllowCredentials \notin DOMAIN headers
        /\ headers[ContentType] # ApiContentType
        /\ outcome # "notfound" =>
              headers[ContentType] = ResolveFormat(Get(req.h, FormatHeader)).format
        /\ content = NoContent /\ outcome # "literal"
        /\ customCode = code
        /\ filename = IF pc = "emit" \/ outcome = "file" \/ Len(opens) = 1
                      THEN CodePage ELSE ClassPage
        /\ opens # <<>> => opens[1] = CodePage
        /\ Done =>
              /\ opens # <<>>
              /\ CodePage \in files => status = code
              /\ (CodePage \in files /\ ValidStatus(code)) =>
                    outcome = "file" /\ body = ReadFile(CodePage)

C7_Witness ==
    /\ Done /\ service = "refresher"
    /\ env[FreshaEnv] # "" /\ Contains(uri, ShedulKey)
    /\ outcome = "file" /\ body = ReadFile(CodePage) /\ status = code

\* C8: the routes are visited in the order of the configuration, so the
\* file, the content and the status of a refresh request are those the
\* configuration order gives (the last route in that order wins).
C8_ConfigOrderDecides ==
    (pc = "emit" /\ invoked) =>
        LET r == modifyOutput(ext, errFilesPath, uri, code, ConfigOrder)
        IN  filename = r.filename /\ content = r.content /\ customCode = r.customCode

\* C9: when X-Code is absent or does not parse, the resolved code is 404; 404
\* selects the file (<root>/404<ext>, then <root>/4xx<ext>) and is the
\* response status unless a route overrides it.
C9_DefaultCode ==
    (Classified /\ Atoi(Get(req.h, CodeHeader)).err) =>
        /\ code = 404
        /\ (Done /\ ~(service = "refresh" /\ RouteTriggers)) =>
              /\ opens # <<>> /\ opens[1] = errFilesPath \o "/404" \o ext
              /\ Len(opens) > 1 => opens[2] = errFilesPath \o "/4xx" \o ext
              /\ outcome # "notfound" => status = 404

\* C10: on every exit path every file handle opened during the request is
\* closed by the time the handler has returned (each open handle has its
\* deferred Close pending until then), and the literal-content path opens no
\* file.
C10_HandlesReleased ==
    /\ pc = "idle" => open = {}
    /\ open = {deferred[i] : i \in DOMAIN deferred}
    /\ Done => open = {opens[i] : i \in DOMAIN opens} \cap files
    /\ (content # NoContent \/ outcome = "literal") => opens = <<>> /\ open = {}

C10_Witness ==
    /\ pc = "idle" /\ outcome = "fallback" /\ open = {} /\ handled > 0

====
